---- MODULE Spec2Model ----
(***************************************************************************)
(* MGost: reconciliation of a local directory with a remote project.       *)
(*                                                                         *)
(* Modelled from src/src/mgost/mgost/sync.py (File Matcher, sync_file,     *)
(* sync), src/src/mgost/api/actions.py (the actions) and                   *)
(* src/src/mgost/api/api.py (the API client with its response cache);     *)
(* the request method is modelled from api.py and from                     *)
(* src/src/mgost/api/caller.py.                                            *)
(*                                                                         *)
(* Time stamps are integers on the grid of datetime values.  A local       *)
(* st_mtime is read by the code only through datetime.fromtimestamp        *)
(* (sync.py:133, api.py:303) and written only by os.utime from             *)
(* modified.timestamp() (api.py:338); the model keeps the datetime that    *)
(* fromtimestamp yields.                                                   *)
(***************************************************************************)
EXTENDS Integers, Sequences, FiniteSets, TLC

VARIABLES
    local,          \* local file tree: path -> [mtime, birth, size]
    remote,         \* remote project files: path -> [created, modified, size]
    cache,          \* ArtichaAPI._cache: request key -> response
    walk,           \* order in which Path.walk()/scandir reaches the files
    hasBirthtime,   \* whether os.stat_result has st_birthtime on this platform
    result,         \* last sync_file call: path, action, and the previous action
                    \* of an immediately preceding call for the same path
    available,      \* whether the server knows the configured project
    known,          \* keys of mgost.info.files (paths written as str)
    pc,             \* phase of sync()
    action,         \* sync()'s variable action while the main document is synced
    batch,          \* sync()'s list actions, in submission order
    status,         \* state of the future of each submitted action
    collected,      \* futures as_completed has handed to the loop
    exceptions,     \* sync()'s list exceptions: (action, future) pairs
    raised,         \* the exception that left sync(), if any
    reported,       \* the failures echoed at the end of sync()
    all_files,      \* sync()'s set all_files
    project_id,     \* mgost.info.settings.project_id, or None
    clock,          \* tick of the file system clock at which a file is created
    requests,       \* the requests that have reached the server in this pass
    calls,          \* the call of an API method each thread is in
    mutations,      \* how many requests that change the project the server has answered
    client,         \* ArtichaAPI._client: "open", or "closed" (None) after close()
    pass            \* the number of the pass sync() is making

fsVars == <<local, remote, cache, walk, hasBirthtime>>

syncVars ==
    <<available, known, project_id, clock, pc, action, batch, status, collected, exceptions,
      raised, reported, all_files>>

apiVars == <<calls, mutations, client>>

vars == <<fsVars, result, syncVars, requests, apiVars, pass>>

----------------------------------------------------------------------------
(* Bounds of the model *)

MaxTime == 2
MaxSize == 2
MaxLocal == 2
MaxRemote == 1
MaxKnown == 1

MaxSyncRemote == 2

\* most local files when a download is called on its own
MaxDownloadLocal == 1

\* most paths of info.files in a pass that fills the pool
MaxPoolKnown == 4

\* access times are counted in ticks of the file system (nanoseconds)
MaxATime == 3

\* ticks between two neighbouring values of a Python float holding seconds
\* since the epoch
FloatStep == 2

\* threads that call the API client at once, and changes the server makes
MaxThreads == 2
MaxMutations == 1

Times == 1..MaxTime
Sizes == 1..MaxSize

ATimes == 0..MaxATime

----------------------------------------------------------------------------
(* Paths: a path is the sequence of its components, relative to the root *)

Paths ==
    { <<"a.md">>, <<"d", "a.md">>, <<"d", "b.md">>,
      <<".h", "a.md">>, <<".h", "d", "b.md">> }

\* Path.name of a file
Name(p) == p[Len(p)]

\* the directory Path.walk() yields the file in
DirOf(p) == SubSeq(p, 1, Len(p) - 1)

\* Path.name of a directory; the root Path('.') has the name ''
DirName(d) == IF d = <<>> THEN "" ELSE d[Len(d)]

\* str.startswith('.') on the names of the universe
StartsWithDot(name) == name \in {".h"}

\* Path.suffix: the last dot-separated part, with its leading dot
Suffix(name) ==
    CASE name = "a.md" -> ".md"
      [] name = "b.md" -> ".md"
      [] OTHER -> ""

\* the set literal of _compare_file_to: suffixes written without a dot
VariableSuffixes == {"md", "docx", "xlsx"}

\* filename=None
NoName == "<None>"

\* birth_time=None, size=None
None == 0

\* Path.walk(top_down=True) is a depth-first preorder: the files of the root,
\* then each sub-directory with its whole subtree; the order of the entries
\* of one directory is the one os.scandir gives
WalkOrders ==
    { << <<"a.md">>, <<"d", "a.md">>, <<"d", "b.md">>, <<".h", "a.md">>, <<".h", "d", "b.md">> >>,
      << <<"a.md">>, <<"d", "b.md">>, <<"d", "a.md">>, <<".h", "a.md">>, <<".h", "d", "b.md">> >>,
      << <<"a.md">>, <<".h", "a.md">>, <<".h", "d", "b.md">>, <<"d", "a.md">>, <<"d", "b.md">> >>,
      << <<"a.md">>, <<".h", "a.md">>, <<".h", "d", "b.md">>, <<"d", "b.md">>, <<"d", "a.md">> >> }

----------------------------------------------------------------------------
(* Records *)

LocalFile == [mtime : Times, birth : Times, size : Sizes, atime : {0}]

\* schemas.ProjectFile
ProjectFile == [created : Times, modified : Times, size : Sizes]

\* all partial functions from Paths to Recs defined on at most n paths
PartialFiles(P, Recs, n) ==
    UNION { [S -> Recs] : S \in { T \in SUBSET P : Cardinality(T) <= n } }

LocalTrees == PartialFiles(Paths, LocalFile, MaxLocal)

RemoteListings == PartialFiles(Paths, ProjectFile, MaxRemote)

EmptyCache == [k \in {} |-> {}]

----------------------------------------------------------------------------
(* Actions (api/actions.py) and the exceptions sync_file can end with *)

DoNothing == [type |-> "DoNothing"]

UploadFileAction(path, overwrite) ==
    [type |-> "UploadFileAction", path |-> path, overwrite |-> overwrite]

DownloadFileAction(path, overwrite_ok) ==
    [type |-> "DownloadFileAction", path |-> path, overwrite_ok |-> overwrite_ok]

FileMovedLocally(path, new_path) ==
    [type |-> "FileMovedLocally", path |-> path, new_path |-> new_path]

FileNotFoundError == [type |-> "FileNotFoundError"]

AttributeError == [type |-> "AttributeError"]

NoAction == [type |-> "none"]

----------------------------------------------------------------------------
(* File Matcher *)

\* stat.st_birthtime == birth_time: st_birthtime is a float and birth_time a
\* datetime (asserted in _search_file); Python compares them unequal
BirthtimeEquals(st_birthtime, birth_time) == FALSE

\* _compare_file_to: "True", "False", or "AttributeError" where the platform's
\* stat_result has no st_birthtime
compare_file_to(path, filename, birth_time, size) ==
    IF filename # NoName /\ Name(path) = filename
    THEN IF Suffix(Name(path)) \notin VariableSuffixes
         THEN "True"
         ELSE IF Suffix(Name(path)) = Suffix(filename) THEN "True" ELSE "False"
    ELSE IF birth_time # None /\ ~hasBirthtime
         THEN "AttributeError"
         ELSE IF birth_time # None /\ BirthtimeEquals(local[path].birth, birth_time)
              THEN "True"
              ELSE IF size # None /\ local[path].size = size
                   THEN "True"
                   ELSE "False"

\* the directories _search_file skips: those whose own name starts with '.'
SkippedDirectory(directory) == StartsWithDot(DirName(directory))

Found(path) == [kind |-> "path", path |-> path]

NotFound == [kind |-> "None"]

Raised == [kind |-> "AttributeError"]

RECURSIVE search_from(_, _, _, _)
search_from(i, filename, birth_time, size) ==
    IF i > Len(walk)
    THEN NotFound
    ELSE LET current_file_path == walk[i] IN
         IF current_file_path \notin DOMAIN local
            \/ SkippedDirectory(DirOf(current_file_path))
         THEN search_from(i + 1, filename, birth_time, size)
         ELSE LET r == compare_file_to(current_file_path, filename, birth_time, size) IN
              CASE r = "True" -> Found(current_file_path)
                [] r = "AttributeError" -> Raised
                [] OTHER -> search_from(i + 1, filename, birth_time, size)

\* _search_file(mgost._root_path, filename, birth_time, size)
search_file(filename, birth_time, size) ==
    search_from(1, filename, birth_time, size)

----------------------------------------------------------------------------
(* Reconciler *)

\* case True, False: the file exists only locally
LocalOnlyMutant(path) == UploadFileAction(path, TRUE)

LocalOnly(path) == UploadFileAction(path, FALSE)

\* case False, True: the file exists only in the cloud
CloudOnlyMutant(path, project_file) ==
    LET new_path == search_file(Name(path), project_file.created,
                                project_file.size)
    IN  CASE new_path.kind = "None" -> DownloadFileAction(path, TRUE)
          [] new_path.kind = "AttributeError" -> AttributeError
          [] OTHER -> FileMovedLocally(path, new_path.path)

CloudOnly(path, project_file) ==
    LET new_path == search_file(Name(path), project_file.created,
                                project_file.size)
    IN  CASE new_path.kind = "None" -> DownloadFileAction(path, FALSE)
          [] new_path.kind = "AttributeError" -> AttributeError
          [] OTHER -> FileMovedLocally(path, new_path.path)

\* case True, True: the newer side wins
BothExistMutant(path, cloud_mt, local_mt) ==
    IF cloud_mt >= local_mt
    THEN DownloadFileAction(path, TRUE)
    ELSE UploadFileAction(path, TRUE)

BothExist(path, cloud_mt, local_mt) ==
    IF cloud_mt > local_mt
    THEN DownloadFileAction(path, TRUE)
    ELSE IF cloud_mt < local_mt
         THEN UploadFileAction(path, TRUE)
         ELSE DoNothing

\* case False, False: only the name is searched for
NeitherExistsMutant(path) == FileNotFoundError

NeitherExists(path) ==
    LET new_path == search_file(Name(path), None, None)
    IN  IF new_path.kind = "None"
        THEN FileNotFoundError
        ELSE FileMovedLocally(path, new_path.path)

\* sync_file, given the mapping project_files(project_id) returned
sync_file(path, project_files) ==
    LET local_md_exists == path \in DOMAIN local
        cloud_md_exists == path \in DOMAIN project_files
    IN  CASE local_md_exists /\ ~cloud_md_exists -> LocalOnly(path)
          [] ~local_md_exists /\ cloud_md_exists ->
                CloudOnly(path, project_files[path])
          [] local_md_exists /\ cloud_md_exists ->
                BothExist(path, project_files[path].modified, local[path].mtime)
          [] OTHER -> NeitherExists(path)

----------------------------------------------------------------------------
(* API client: the cached listing *)

\* request keys (method, url, params, files) of the GET requests, which pass
\* neither params nor files
FilesKey == <<"GET", "files">>

ProjectKey == <<"GET", "project">>

FileKey(path) == <<"GET", "files">> \o path

\* a cache that keeps an empty body instead of the response
CacheStoreMutant(c, key, resp) ==
    [k \in DOMAIN c \cup {key} |-> IF k = key THEN [p \in {} |-> {}] ELSE c[k]]

\* self._cache[key] = resp
CacheStore(c, key, resp) ==
    [k \in DOMAIN c \cup {key} |-> IF k = key THEN resp ELSE c[k]]

\* the cache c after _method('GET', url) was answered with resp: a hit
\* leaves it, a miss stores the response
Get(c, key, resp) == IF key \in DOMAIN c THEN c ELSE CacheStore(c, key, resp)

\* a client that answers every request with an empty listing
ReturnedMutant(c, key, resp) == [p \in {} |-> {}]

\* what _method('GET', url) returns with the cache c when the server would
\* answer resp: the cached value on a hit, the response on a miss
Returned(c, key, resp) == IF key \in DOMAIN c THEN c[key] ELSE resp

\* ArtichaAPI.project_files with the cache c: the cached response when there
\* is one, else the listing the server holds
project_files_of(c) == Returned(c, FilesKey, remote)

project_files == project_files_of(cache)

\* a request as the server sees it; exists tells whether the server holds
\* what the request names when it arrives
Req(method, url, path) ==
    [method |-> method, url |-> url, path |-> path,
     exists |-> IF url = "file" THEN path \in DOMAIN remote
                ELSE project_id # None /\ available]

\* the request _method sends for key with the cache c: none on a hit
Miss(c, key, r) == IF key \in DOMAIN c THEN {} ELSE {r}

ListingRequest(c) == Miss(c, FilesKey, Req("GET", "files", <<>>))

\* status codes the client tells apart, and the bound of `if counter > 2`
status_ok == 200
too_many_requests == 429

\* a status other than 200 and 429, as the server gives for a token it rejects
unauthorized == 401
max_counter == 2

Threads == 1..MaxThreads

RenderKey == <<"GET", "render">>

MeKey == <<"GET", "me">>

\* the key of the request an API method makes
KeyOf(op) ==
    CASE op = "project_files" -> FilesKey
      [] op = "render" -> RenderKey
      [] op = "validate_token" -> MeKey
      [] op = "upload" -> <<"POST", "file">>

\* the params and files an API method hands to _method: upload passes dicts
ParamsOf(op) == IF op = "upload" THEN "dict" ELSE "None"

\* the two request methods of the package: ArtichaAPI._method and
\* caller._method_normal
Impls == {"_method", "_method_normal"}

\* a response: its status, whether its JSON body has the key 'detail', and
\* how many changes the server had made when it answered
Responses ==
    [status_code : {status_ok, too_many_requests, unauthorized}, detail : BOOLEAN,
     version : 0..MaxMutations]

NoResponse == [status_code |-> 0, detail |-> FALSE, version |-> 0]

\* a thread's call of an API method: the method (op), the request method it
\* goes through (impl), the cache key, the place in the code (pos), the
\* local variables counter and resp, the number of requests sent, whether
\* the cache answered, the exception raised, the number of changing calls
\* that had returned when the call began, and whether close() had been
\* called by then
IdleCall(impl) ==
    [op |-> "none", impl |-> impl, key |-> <<>>, pos |-> "idle", counter |-> 0,
     sent |-> 0, resp |-> NoResponse, hit |-> FALSE, error |-> "none", after |-> 0,
     closed |-> FALSE]

NoCalls == [t \in Threads |-> IdleCall("_method")]

----------------------------------------------------------------------------
(* Specification of the reconciler on its own *)

InitReconcile ==
    /\ local \in LocalTrees
    /\ remote \in RemoteListings
    /\ cache = EmptyCache
    /\ walk \in WalkOrders
    /\ hasBirthtime \in BOOLEAN
    /\ result = [path |-> <<>>, action |-> NoAction, prev |-> NoAction]
    /\ available = TRUE
    /\ known = {}
    /\ pc = "Idle"
    /\ action = NoAction
    /\ batch = <<>>
    /\ status = <<>>
    /\ collected = {}
    /\ exceptions = <<>>
    /\ raised = NoAction
    /\ reported = <<>>
    /\ all_files = {}
    /\ project_id = 1
    /\ clock = 0
    /\ requests = {}
    /\ calls = NoCalls
    /\ mutations = 0
    /\ client = "open"
    /\ pass = 1

\* one call sync_file(mgost, project_id, path)
SyncFile(path) ==
    /\ result' = [path |-> path,
                  action |-> sync_file(path, project_files),
                  prev |-> IF result.path = path THEN result.action ELSE NoAction]
    /\ cache' = Get(cache, FilesKey, remote)
    /\ requests' = requests \cup ListingRequest(cache)
    /\ UNCHANGED <<local, remote, walk, hasBirthtime, syncVars, apiVars, pass>>

NextReconcile == \E path \in Paths : SyncFile(path)

SpecReconcile == InitReconcile /\ [][NextReconcile]_vars

----------------------------------------------------------------------------
(* Action execution: complete_mgost -> complete_api -> ArtichaAPI *)

\* sync() calls action.complete_mgost(mgost) as a plain function, in the main
\* thread and in the pool, and api.py defines upload, download and
\* move_on_cloud as plain methods, while actions.py declares complete_mgost
\* and complete_api with async def.  The model follows sync() and api.py: a
\* completion is the call of the API method named in complete_api.

\* the local clock while sync() runs: later than every time stamp of the
\* initial state
Now == MaxTime + 1

\* a cache whose keys can hold dicts
HashableMutant(params, files) == TRUE

\* hash(key) in self._cache.get(key), key = (method, url, params, files): a
\* tuple that holds a dict is unhashable and _method raises TypeError before
\* any request is sent
Hashable(params, files) == params # "dict" /\ files # "dict"

\* a directory exists when the tree holds a file below it
DirExists(loc, d) ==
    d = <<>> \/ \E q \in DOMAIN loc : Len(q) > Len(d) /\ SubSeq(q, 1, Len(d)) = d

\* the request of upload when _method gets to it: POST to the file's url
\* with overwrite, PUT without
upload_request(loc, path, overwrite) ==
    IF path \in DOMAIN loc /\ Hashable("dict", "dict")
    THEN {Req(IF overwrite THEN "POST" ELSE "PUT", "file", path)}
    ELSE {}

\* the request of move_on_cloud when _method gets to it
move_request(old_path) ==
    IF Hashable("dict", "None") THEN {Req("PATCH", "file", old_path)} ELSE {}

\* ArtichaAPI.upload: params and files are dicts
upload(loc, path, overwrite) ==
    IF path \notin DOMAIN loc
    THEN "FileNotFoundError"
    ELSE IF Hashable("dict", "dict") THEN "ok" ELSE "TypeError"

\* ArtichaAPI.move_on_cloud: params is the dict {'target': new_path}
move_on_cloud(old_path, new_path) ==
    IF Hashable("dict", "None") THEN "ok" ELSE "TypeError"

\* a download that never refuses its target
FileExistsMutant(loc, path, overwrite_ok) == FALSE

\* ArtichaAPI.download: path.exists() and not overwrite_ok
FileExists(loc, path, overwrite_ok) == path \in DOMAIN loc /\ ~overwrite_ok

\* open(path, 'wb'): the file is created, or truncated, now
Opened(loc, path) ==
    [p \in DOMAIN loc \cup {path} |->
        IF p = path
        THEN [mtime |-> Now,
              birth |-> IF path \in DOMAIN loc THEN loc[path].birth ELSE Now,
              atime |-> IF path \in DOMAIN loc THEN loc[path].atime ELSE clock,
              size |-> 0]
        ELSE loc[p]]

\* file.write(resp.content)
Written(loc, path, content_size) ==
    [loc EXCEPT ![path].mtime = Now, ![path].size = content_size]

\* the float nearest to a time of t ticks, written in ticks
AsFloat(t) == ((t + FloatStep \div 2) \div FloatStep) * FloatStep

\* path.lstat().st_atime: a float
st_atime(loc, path) == AsFloat(loc[path].atime)

\* a download that leaves the times of the written file
UtimeMutant(loc, path, modified) == loc

\* utime(path, (access_time, project_file.modified.timestamp()))
Utime(loc, path, modified) ==
    [loc EXCEPT ![path].mtime = modified, ![path].atime = st_atime(loc, path)]

Outcome(st, loc, c, sent) ==
    [status |-> st, local |-> loc, cache |-> c, sent |-> sent]

\* the first part of an action's completion, up to the request of a download:
\* DoNothing returns, upload and move_on_cloud end in _method, download checks
\* the target and opens it
Begin(a, loc, c) ==
    CASE a.type = "DoNothing" -> Outcome("ok", loc, c, {})
      [] a.type = "UploadFileAction" ->
            Outcome(upload(loc, a.path, a.overwrite), loc, c,
                    upload_request(loc, a.path, a.overwrite))
      [] a.type = "FileMovedLocally" ->
            Outcome(move_on_cloud(a.path, a.new_path), loc, c,
                    move_request(a.path))
      [] a.type = "DownloadFileAction" ->
            IF FileExists(loc, a.path, a.overwrite_ok)
            THEN Outcome("FileExistsError", loc, c, {})
            ELSE IF ~DirExists(loc, DirOf(a.path))
                 THEN Outcome("FileNotFoundError", loc, c, {})
                 ELSE Outcome("opened", Opened(loc, a.path), c, {})

\* the rest of ArtichaAPI.download: the GET of the file (answered from the
\* cache, by the server, or with an error), the write, the listing and utime
Fetch(a, loc, c) ==
    LET key == FileKey(a.path)
        content == [size |-> remote[a.path].size]
        c1 == Get(c, key, content)
        c2 == Get(c1, FilesKey, remote)
        listing == Returned(c1, FilesKey, remote)
        written == Written(loc, a.path, Returned(c, key, content).size)
        get == Miss(c, key, Req("GET", "file", a.path))
        sent == get \cup ListingRequest(c1)
    IN  (IF key \in DOMAIN c THEN {} ELSE {Outcome("APIRequestError", loc, c, get)})
        \cup
        (IF key \notin DOMAIN c /\ a.path \notin DOMAIN remote
         THEN {}
         ELSE IF a.path \notin DOMAIN listing
              THEN {Outcome("KeyError", written, c2, sent)}
              ELSE {Outcome("ok", Utime(written, a.path, listing[a.path].modified),
                            c2, sent)})

\* a completion that returns at once
CompleteMutant(a, loc, c) == {Outcome("ok", loc, c, {})}

\* a whole completion, as the main thread runs it
Complete(a, loc, c) ==
    LET b == Begin(a, loc, c)
    IN  IF b.status = "opened" THEN Fetch(a, b.local, b.cache) ELSE {b}

\* a future that never finishes
FinishedMutant(st) == FALSE

\* future.done(): the call has returned or raised
Finished(st) == st \notin {"pending", "running", "opened"}

Failed(st) == Finished(st) /\ st # "ok"

----------------------------------------------------------------------------
(* Sync orchestrator: sync() *)

\* ThreadPoolExecutor(max_workers=4)
max_workers == 4

\* project.path_to_markdown
MainPath == <<"a.md">>

\* the paths a pass is checked on: those outside hidden directories
SyncPaths == { p \in Paths : ~ \E i \in 1..(Len(p) - 1) : StartsWithDot(p[i]) }

SyncLocalTrees ==
    PartialFiles(SyncPaths, [mtime : Times, birth : {1}, size : Sizes, atime : {0}],
                 MaxLocal)

SyncRemoteListings ==
    PartialFiles(SyncPaths, [created : {1}, modified : Times, size : Sizes],
                 MaxSyncRemote)

SyncKnown == { K \in SUBSET SyncPaths : Cardinality(K) <= MaxKnown }

\* a pass is checked with the walk that lists the visible directory first,
\* in name order
SyncWalkOrders ==
    { w \in WalkOrders : w[2] = <<"d", "a.md">> /\ w[3] = <<"d", "b.md">> }

RECURSIVE SeqOf(_)
SeqOf(S) ==
    IF S = {} THEN <<>> ELSE LET x == CHOOSE y \in S : TRUE IN <<x>> \o SeqOf(S \ {x})

InitSync ==
    /\ local \in SyncLocalTrees
    /\ remote \in SyncRemoteListings
    /\ cache = EmptyCache
    /\ walk \in SyncWalkOrders
    /\ hasBirthtime \in BOOLEAN
    /\ result = [path |-> <<>>, action |-> NoAction, prev |-> NoAction]
    /\ project_id \in {None, 1}
    /\ available \in IF project_id = None THEN {FALSE} ELSE BOOLEAN
    /\ clock = MaxATime
    /\ requests = {}
    /\ calls = NoCalls
    /\ mutations = 0
    /\ client = "open"
    /\ pass = 1
    /\ known \in SyncKnown
    /\ pc = "Idle"
    /\ action = NoAction
    /\ batch = <<>>
    /\ status = <<>>
    /\ collected = {}
    /\ exceptions = <<>>
    /\ raised = NoAction
    /\ reported = <<>>
    /\ all_files = {}

\* mgost.sync_files() is called
Start ==
    /\ pc = "Idle"
    /\ pc' = "ValidatingProject"
    /\ UNCHANGED <<fsVars, result, available, known, project_id, clock, calls, mutations, client, pass,
                   action, batch, status, collected, exceptions, raised,
                   reported, all_files, requests>>

\* a validation that lets every project pass
project_validMutant == TRUE

\* the project id is set and is_project_available(project_id) holds
project_valid == project_id # None /\ available

\* assert project_id is not None
\* assert mgost.api.is_project_available(project_id)
ValidateProject ==
    /\ pc = "ValidatingProject"
    /\ IF project_valid
       THEN /\ pc' = "SyncingPrimaryDocument"
            /\ raised' = raised
       ELSE /\ pc' = "Aborted"
            /\ raised' = [type |-> "AssertionError"]
    /\ cache' = IF project_id # None /\ available
                THEN Get(cache, ProjectKey, [path_to_markdown |-> MainPath])
                ELSE cache
    /\ requests' = requests \cup
                   (IF project_id = None
                    THEN {}
                    ELSE Miss(cache, ProjectKey, Req("GET", "project", <<>>)))
    /\ UNCHANGED <<local, remote, walk, hasBirthtime, result, available, known,
                   project_id, clock, calls, mutations, client, pass, action, batch, status, collected,
                   exceptions, reported, all_files>>

\* action = _sync_main_md(mgost, project_id)
ReconcileMain ==
    /\ pc = "SyncingPrimaryDocument"
    /\ action = NoAction
    /\ LET a == sync_file(MainPath, project_files) IN
       IF a.type \in {"FileNotFoundError", "AttributeError"}
       THEN /\ raised' = a
            /\ pc' = "Aborted"
            /\ action' = action
       ELSE /\ action' = a
            /\ UNCHANGED <<raised, pc>>
    /\ cache' = Get(cache, FilesKey, remote)
    /\ requests' = requests \cup ListingRequest(cache)
    /\ UNCHANGED <<local, remote, walk, hasBirthtime, result, available, known,
                   project_id, clock, calls, mutations, client, pass, batch, status, collected, exceptions,
                   reported, all_files>>

\* a loop that swallows the exception of the main document's completion
FatalMutant(st) == FALSE

\* except Exception as e: ... raise e
Fatal(st) == st # "ok"

\* the loop completing the main document's action
CompleteMain ==
    /\ pc = "SyncingPrimaryDocument"
    /\ action # NoAction
    /\ \E o \in Complete(action, local, cache) :
          /\ local' = o.local
          /\ cache' = o.cache
          /\ requests' = requests \cup o.sent
          /\ IF Fatal(o.status)
             THEN /\ pc' = "Aborted"
                  /\ raised' = [type |-> o.status]
             ELSE /\ pc' = "EnumeratingFiles"
                  /\ raised' = raised
    /\ action' = NoAction
    /\ UNCHANGED <<remote, walk, hasBirthtime, result, available, known,
                   project_id, clock, calls, mutations, client, pass, batch, status, collected, exceptions,
                   reported, all_files>>

\* all_files = set(local_files).union(cloud_files): the keys of info.files are
\* str, those of the listing Path, and a str never equals a Path
Enumerate ==
    /\ pc = "EnumeratingFiles"
    /\ all_files' = { [kind |-> "str", path |-> p] : p \in known }
                    \cup { [kind |-> "Path", path |-> p] : p \in DOMAIN project_files }
    /\ cache' = Get(cache, FilesKey, remote)
    /\ requests' = requests \cup ListingRequest(cache)
    /\ pc' = "SyncingFileSet"
    /\ UNCHANGED <<local, remote, walk, hasBirthtime, result, available, known,
                   project_id, clock, calls, mutations, client, pass, action, batch, status, collected,
                   exceptions, raised, reported>>

\* the loop over all_files and the submission of every action to the pool
ReconcileAll ==
    /\ pc = "SyncingFileSet"
    /\ LET names == SeqOf(all_files)
           actions == [i \in 1..Len(names) |-> sync_file(names[i].path, project_files)]
           errors == { i \in 1..Len(names) :
                         actions[i].type \in {"FileNotFoundError", "AttributeError"} }
       IN  IF errors # {}
           THEN /\ raised' = actions[CHOOSE i \in errors : TRUE]
                /\ pc' = "Aborted"
                /\ UNCHANGED <<batch, status>>
           ELSE /\ batch' = actions
                /\ status' = [i \in 1..Len(names) |-> "pending"]
                /\ pc' = "Executing"
                /\ raised' = raised
    /\ cache' = Get(cache, FilesKey, remote)
    /\ requests' = requests \cup ListingRequest(cache)
    /\ UNCHANGED <<local, remote, walk, hasBirthtime, result, available, known,
                   project_id, clock, calls, mutations, client, pass, action, collected, exceptions, reported,
                   all_files>>

Running == { i \in DOMAIN status : status[i] \in {"running", "opened"} }

\* a pool that starts a thread for every submitted call
WorkerFreeMutant == TRUE

\* the pool has fewer than max_workers threads at work
WorkerFree == Cardinality(Running) < max_workers

\* a worker thread of the pool takes a submitted call
WorkerStart(i) ==
    /\ pc = "Executing"
    /\ status[i] = "pending"
    /\ WorkerFree
    /\ status' = [status EXCEPT ![i] = "running"]
    /\ UNCHANGED <<fsVars, result, available, known, project_id, clock, calls, mutations, client, pass, pc,
                   action, batch, collected, exceptions, raised, reported,
                   all_files, requests>>

\* the worker runs the completion up to the request of a download
WorkerBegin(i) ==
    /\ pc = "Executing"
    /\ status[i] = "running"
    /\ LET o == Begin(batch[i], local, cache) IN
          /\ status' = [status EXCEPT ![i] = o.status]
          /\ local' = o.local
          /\ cache' = o.cache
          /\ requests' = requests \cup o.sent
    /\ UNCHANGED <<remote, walk, hasBirthtime, result, available, known,
                   project_id, clock, calls, mutations, client, pass, pc, action, batch, collected, exceptions,
                   raised, reported, all_files>>

\* the worker's download gets its answer
WorkerFetch(i) ==
    /\ pc = "Executing"
    /\ status[i] = "opened"
    /\ \E o \in Fetch(batch[i], local, cache) :
          /\ status' = [status EXCEPT ![i] = o.status]
          /\ local' = o.local
          /\ cache' = o.cache
          /\ requests' = requests \cup o.sent
    /\ UNCHANGED <<remote, walk, hasBirthtime, result, available, known,
                   project_id, clock, calls, mutations, client, pass, pc, action, batch, collected, exceptions,
                   raised, reported, all_files>>

\* a collector that keeps the loop variable of the submission loop, the
\* last action submitted
CollectedFailureMutant(i) == [action |-> batch[Len(batch)], future |-> i]

\* what the loop over as_completed appends for a failed future
CollectedFailure(i) == [action |-> batch[i], future |-> i]

\* one round of the loop over as_completed(futures)
Collect(i) ==
    /\ pc = "Executing"
    /\ i \notin collected
    /\ Finished(status[i])
    /\ collected' = collected \cup {i}
    /\ exceptions' = IF Failed(status[i])
                     THEN Append(exceptions, CollectedFailure(i))
                     ELSE exceptions
    /\ UNCHANGED <<fsVars, result, available, known, project_id, clock, calls, mutations, client, pass, pc,
                   action, batch, status, raised, reported, all_files, requests>>

\* a pool that is left as soon as a failure was collected
PoolLeftMutant == collected = DOMAIN status \/ exceptions # <<>>

\* as_completed handed out every future and the executor was shut down
\* waiting for its workers: the pool is left
PoolLeft == collected = DOMAIN status

\* isinstance(action, PathAction)
IsPathAction(a) ==
    a.type \in {"UploadFileAction", "DownloadFileAction", "FileMovedLocally"}

PathFailure(e) == IsPathAction(e.action)

\* the pool is left and the failures of path actions are echoed
Report ==
    /\ pc = "Executing"
    /\ PoolLeft
    /\ reported' = SelectSeq(exceptions, PathFailure)
    /\ pc' = "Done"
    /\ UNCHANGED <<fsVars, result, available, known, project_id, clock, calls, mutations, client, pass, action,
                   batch, status, collected, exceptions, raised, all_files,
                   requests>>

NextSync ==
    \/ Start
    \/ ValidateProject
    \/ ReconcileMain
    \/ CompleteMain
    \/ Enumerate
    \/ ReconcileAll
    \/ \E i \in DOMAIN status : WorkerStart(i)
    \/ \E i \in DOMAIN status : WorkerBegin(i)
    \/ \E i \in DOMAIN status : WorkerFetch(i)
    \/ \E i \in DOMAIN status : Collect(i)
    \/ Report

SpecSync == InitSync /\ [][NextSync]_vars

\* the main thread and the worker threads keep running, and every request
\* is answered
SpecSyncFair == SpecSync /\ WF_vars(NextSync)

\* mgost.sync_files() is called again right after a pass in which nothing
\* failed, by the same process (the client keeps its cache) or by a new one
\* (the cache is empty); nothing else has touched the files
SecondPass ==
    /\ pc = "Done"
    /\ exceptions = <<>>
    /\ pass = 1
    /\ pass' = 2
    /\ pc' = "ValidatingProject"
    /\ cache' \in {cache, EmptyCache}
    /\ requests' = {}
    /\ action' = NoAction
    /\ batch' = <<>>
    /\ status' = <<>>
    /\ collected' = {}
    /\ reported' = <<>>
    /\ all_files' = {}
    /\ UNCHANGED <<local, remote, walk, hasBirthtime, result, available, known,
                   project_id, clock, calls, mutations, client, exceptions, raised>>

NextTwoPasses == NextSync \/ SecondPass

SpecTwoPasses == InitSync /\ [][NextTwoPasses]_vars

----------------------------------------------------------------------------
(* Passes whose batch is larger than the pool *)

\* every path is a local file, none newer than the remote copy
PoolLocalTree == [p \in Paths |-> [mtime |-> 1, birth |-> 1, size |-> 1, atime |-> 0]]

\* the main document in sync, with or without a newer remote d/b.md
PoolRemoteListings ==
    { [p \in S |-> [created |-> 1,
                    modified |-> IF p = MainPath THEN 1 ELSE MaxTime,
                    size |-> 1]] :
        S \in { {MainPath}, {MainPath, <<"d", "b.md">>} } }

PoolKnown ==
    { K \in SUBSET Paths :
        Cardinality(K) >= max_workers /\ Cardinality(K) <= MaxPoolKnown }

InitPool ==
    /\ local = PoolLocalTree
    /\ remote \in PoolRemoteListings
    /\ cache = EmptyCache
    /\ walk \in SyncWalkOrders
    /\ hasBirthtime \in BOOLEAN
    /\ result = [path |-> <<>>, action |-> NoAction, prev |-> NoAction]
    /\ project_id = 1
    /\ available = TRUE
    /\ clock = MaxATime
    /\ requests = {}
    /\ calls = NoCalls
    /\ mutations = 0
    /\ client = "open"
    /\ pass = 1
    /\ known \in PoolKnown
    /\ pc = "Idle"
    /\ action = NoAction
    /\ batch = <<>>
    /\ status = <<>>
    /\ collected = {}
    /\ exceptions = <<>>
    /\ raised = NoAction
    /\ reported = <<>>
    /\ all_files = {}

SpecPool == InitPool /\ [][NextSync]_vars

----------------------------------------------------------------------------
(* Downloads on their own: DownloadFileAction.complete_api *)

\* at most one local file, with any access time
DownloadLocalTrees ==
    PartialFiles(SyncPaths, [mtime : Times, birth : {1}, size : Sizes, atime : ATimes],
                 MaxDownloadLocal)

DownloadRemoteListings == PartialFiles(SyncPaths, ProjectFile, MaxRemote)

InitDownload ==
    /\ local \in DownloadLocalTrees
    /\ remote \in DownloadRemoteListings
    /\ cache = EmptyCache
    /\ walk \in SyncWalkOrders
    /\ hasBirthtime = TRUE
    /\ result = [path |-> <<>>, action |-> NoAction, prev |-> NoAction]
    /\ project_id = 1
    /\ available = TRUE
    /\ clock \in ATimes
    /\ requests = {}
    /\ calls = NoCalls
    /\ mutations = 0
    /\ client = "open"
    /\ pass = 1
    /\ known = {}
    /\ pc = "Idle"
    /\ action = NoAction
    /\ batch = <<>>
    /\ status = <<>>
    /\ collected = {}
    /\ exceptions = <<>>
    /\ raised = NoAction
    /\ reported = <<>>
    /\ all_files = {}

\* DownloadFileAction(project_id, path, overwrite_ok).complete_api(api): the
\* action is kept in action, the way the call ended in raised
CallDownload(path, overwrite_ok) ==
    /\ action' = DownloadFileAction(path, overwrite_ok)
    /\ \E o \in Complete(action', local, cache) :
          /\ local' = o.local
          /\ cache' = o.cache
          /\ requests' = requests \cup o.sent
          /\ raised' = [type |-> o.status]
    /\ UNCHANGED <<remote, walk, hasBirthtime, result, available, known,
                   project_id, clock, calls, mutations, client, pass, pc, batch, status, collected, exceptions,
                   reported, all_files>>

NextDownload ==
    \E path \in SyncPaths, overwrite_ok \in BOOLEAN :
        CallDownload(path, overwrite_ok)

SpecDownload == InitDownload /\ [][NextDownload]_vars

\* Action.complete_api called on its own, for each of the four actions: the
\* action is kept in action, the way the call ended in raised
CallAction(a) ==
    /\ action' = a
    /\ \E o \in Complete(a, local, cache) :
          /\ local' = o.local
          /\ cache' = o.cache
          /\ requests' = requests \cup o.sent
          /\ raised' = [type |-> o.status]
    /\ UNCHANGED <<remote, walk, hasBirthtime, result, available, known,
                   project_id, clock, calls, mutations, client, pass, pc, batch, status, collected, exceptions,
                   reported, all_files>>

NextActions ==
    \/ CallAction(DoNothing)
    \/ \E path \in SyncPaths, overwrite \in BOOLEAN :
          CallAction(UploadFileAction(path, overwrite))
    \/ \E path \in SyncPaths, overwrite_ok \in BOOLEAN :
          CallDownload(path, overwrite_ok)
    \/ \E path \in SyncPaths, new_path \in SyncPaths :
          CallAction(FileMovedLocally(path, new_path))

SpecActions == InitDownload /\ [][NextActions]_vars

-----------------------------------------------------------------------------
(* The request method, step by step, called by several threads *)

\* a request the server changes the project on: render, answered with success
Mutates(key, r) == key = RenderKey /\ r.status_code = status_ok /\ ~r.detail

\* the answers the server can give to a request for key now
Answers(key) ==
    { r \in Responses :
        r.version = mutations + (IF Mutates(key, r) THEN 1 ELSE 0) }

\* the changing calls that have returned: the changes made, less those whose
\* response is on its way
Completed ==
    mutations - Cardinality({ t \in Threads :
                    calls[t].pos = "waiting" /\ Mutates(calls[t].key, calls[t].resp) })

\* self._client.request(...) of call c in thread t, answered with r
Send(t, c, r) ==
    /\ calls' = [calls EXCEPT ![t] =
                    [c EXCEPT !.pos = "waiting", !.resp = r, !.sent = c.sent + 1]]
    /\ mutations' = r.version

\* if counter > 2
RetryLimitReached(counter) == counter > max_counter

\* how the request method ends with response r, limit telling whether the
\* retry loop was left through `if counter > 2`: _method returns from inside
\* the loop, _method_normal breaks and goes on with raise_for_status; both
\* then raise on 'detail' and store the response otherwise
Leave(impl, r, limit) ==
    IF impl = "_method" /\ limit
    THEN "returned"
    ELSE IF impl = "_method_normal" /\ r.status_code # status_ok
         THEN "HTTPStatusError"
         ELSE IF r.detail THEN "APIRequestError" ELSE "stored"

InitMethod ==
    /\ local = EmptyCache
    /\ remote = EmptyCache
    /\ cache = EmptyCache
    /\ walk \in SyncWalkOrders
    /\ hasBirthtime = TRUE
    /\ result = [path |-> <<>>, action |-> NoAction, prev |-> NoAction]
    /\ project_id = 1
    /\ available = TRUE
    /\ clock = 0
    /\ requests = {}
    /\ \E impl \in Impls : calls = [t \in Threads |-> IdleCall(impl)]
    /\ mutations = 0
    /\ client = "open"
    /\ pass = 1
    /\ known = {}
    /\ pc = "Idle"
    /\ action = NoAction
    /\ batch = <<>>
    /\ status = <<>>
    /\ collected = {}
    /\ exceptions = <<>>
    /\ raised = NoAction
    /\ reported = <<>>
    /\ all_files = {}

\* thread t calls an API method: hash(key) in the cache lookup raises for
\* upload's dicts, a cached response is returned, a closed client raises
\* ClientClosed, and otherwise the request is sent; render clears the cache
\* when _get has returned.  upload is a method of ArtichaAPI only
MethodCall(t, op) ==
    LET key == KeyOf(op)
        c == [IdleCall(calls[t].impl) EXCEPT !.op = op, !.key = key,
                                              !.after = Completed,
                                              !.closed = (client = "closed")]
        raise(e) == /\ calls' = [calls EXCEPT ![t] =
                                    [c EXCEPT !.pos = "raised", !.error = e]]
                    /\ UNCHANGED <<cache, mutations>>
    IN  /\ calls[t].pos # "waiting"
        /\ op = "upload" => calls[t].impl = "_method"
        /\ IF ~Hashable(ParamsOf(op), ParamsOf(op))
           THEN raise("TypeError")
           ELSE IF key \in DOMAIN cache
           THEN /\ calls' = [calls EXCEPT ![t] =
                                [c EXCEPT !.pos = "returned", !.resp = cache[key],
                                          !.hit = TRUE]]
                /\ cache' = IF op = "render" THEN EmptyCache ELSE cache
                /\ UNCHANGED mutations
           ELSE IF client = "closed"
           THEN raise("ClientClosed")
           ELSE /\ \E r \in Answers(key) : Send(t, c, r)
                /\ UNCHANGED cache
        /\ UNCHANGED <<local, remote, walk, hasBirthtime, result, syncVars,
                       requests, client, pass>>

\* thread t calls close() on the ArtichaAPI
Close(t) ==
    /\ calls[t].pos # "waiting"
    /\ calls[t].impl = "_method"
    /\ LET c == [IdleCall(calls[t].impl) EXCEPT !.op = "close",
                                                 !.closed = (client = "closed")]
       IN  IF client = "closed"
           THEN /\ calls' = [calls EXCEPT ![t] =
                                [c EXCEPT !.pos = "raised", !.error = "ClientClosed"]]
                /\ UNCHANGED client
           ELSE /\ calls' = [calls EXCEPT ![t] = [c EXCEPT !.pos = "returned"]]
                /\ client' = "closed"
    /\ UNCHANGED <<fsVars, result, syncVars, requests, mutations, pass>>

\* thread t gets the response of its request: the loop `while
\* resp.status_code == 429` sends the request again, or the method ends
MethodReceive(t) ==
    LET c == calls[t]
        r == c.resp
        looped == c.sent > 1
        counter == IF looped THEN c.counter + 1 ELSE 0
        limit == looped /\ RetryLimitReached(counter)
        how == Leave(c.impl, r, limit)
        \* render: resp.raise_for_status() before _invalidate_cache()
        error == IF how \notin {"returned", "stored"} THEN how
                 ELSE IF c.op = "render" /\ r.status_code # status_ok
                      THEN "HTTPStatusError" ELSE "none"
        stored == IF how = "stored" THEN CacheStore(cache, c.key, r) ELSE cache
    IN  /\ c.pos = "waiting"
        /\ IF ~limit /\ r.status_code = too_many_requests
           THEN /\ IF client = "closed"
                   THEN \* self._client.request with self._client = "closed"
                        /\ calls' = [calls EXCEPT ![t] =
                                        [c EXCEPT !.counter = counter,
                                                  !.pos = "raised",
                                                  !.error = "AttributeError"]]
                        /\ UNCHANGED mutations
                   ELSE \E a \in Answers(c.key) :
                            Send(t, [c EXCEPT !.counter = counter], a)
                /\ UNCHANGED cache
           ELSE /\ calls' = [calls EXCEPT ![t] =
                                [c EXCEPT !.counter = counter, !.error = error,
                                          !.pos = IF error = "none" THEN "returned"
                                                  ELSE "raised"]]
                /\ cache' = IF c.op = "render" /\ error = "none"
                            THEN EmptyCache ELSE stored
                /\ UNCHANGED mutations
        /\ UNCHANGED <<local, remote, walk, hasBirthtime, result, syncVars,
                       requests, client, pass>>

NextMethod ==
    \E t \in Threads :
        \/ \E op \in {"project_files", "render", "upload"} : MethodCall(t, op)
        \/ MethodReceive(t)
        \/ Close(t)

SpecMethod == InitMethod /\ [][NextMethod]_vars

-----------------------------------------------------------------------------
(* A command of the CLI: token_valid, then project_valid and sync_files *)

\* token_valid(mgost) for the finished call c of validate_token: "True",
\* "False", or the exception that leaves it.  validate_token returns the
\* detail, a str, for a response whose status is not 200 (asserting that
\* the body has one), and TokenInfo(**info) otherwise
token_valid(c) ==
    IF c.pos = "raised"
    THEN c.error
    ELSE IF c.resp.status_code # status_ok
         THEN IF c.resp.detail THEN "False" ELSE "AssertionError"
         ELSE IF c.resp.detail THEN "ValidationError" ELSE "True"

\* the trees a command is checked with: at most one file
CommandLocalTrees ==
    PartialFiles(SyncPaths, [mtime : {1}, birth : {1}, size : {1}, atime : {0}],
                 MaxDownloadLocal)

InitCommand ==
    /\ local \in CommandLocalTrees
    /\ remote \in SyncRemoteListings
    /\ cache = EmptyCache
    /\ walk \in SyncWalkOrders
    /\ hasBirthtime = TRUE
    /\ result = [path |-> <<>>, action |-> NoAction, prev |-> NoAction]
    /\ project_id \in {None, 1}
    /\ available \in IF project_id = None THEN {FALSE} ELSE BOOLEAN
    /\ clock = MaxATime
    /\ requests = {}
    /\ calls = NoCalls
    /\ mutations = 0
    /\ client = "open"
    /\ pass = 1
    /\ known \in SyncKnown
    /\ pc = "ValidatingToken"
    /\ action = NoAction
    /\ batch = <<>>
    /\ status = <<>>
    /\ collected = {}
    /\ exceptions = <<>>
    /\ raised = NoAction
    /\ reported = <<>>
    /\ all_files = {}

\* token_info = mgost.api.validate_token(), in the main thread
CallValidateToken ==
    /\ pc = "ValidatingToken"
    /\ calls[1].pos = "idle"
    /\ MethodCall(1, "validate_token")

\* the response to the main thread's request arrives
TokenResponse ==
    /\ pc = "ValidatingToken"
    /\ MethodReceive(1)

\* is_token_valid = token_valid(mgost); if is_token_valid is False: return
TokenValid ==
    /\ pc = "ValidatingToken"
    /\ calls[1].op = "validate_token"
    /\ calls[1].pos \in {"returned", "raised"}
    /\ LET v == token_valid(calls[1])
       IN  /\ pc' = CASE v = "True" -> "Idle"
                      [] v = "False" -> "Stopped"
                      [] OTHER -> "Aborted"
           /\ raised' = IF v \in {"True", "False"} THEN raised ELSE [type |-> v]
    /\ UNCHANGED <<fsVars, result, available, known, project_id, clock, calls, mutations, client, pass,
                   action, batch, status, collected, exceptions, reported,
                   all_files, requests>>

NextCommand ==
    \/ CallValidateToken
    \/ TokenResponse
    \/ TokenValid
    \/ NextSync

SpecCommand == InitCommand /\ [][NextCommand]_vars

----------------------------------------------------------------------------
(* Notions the claims are stated with *)

\* some directory between the root and the file has a name starting with '.'
InHiddenDirectory(p) == \E i \in 1..(Len(p) - 1) : StartsWithDot(p[i])

\* a call of sync_file has been made
Called == result.action # NoAction

\* the rule of the File Matcher as the specification words it
SpecAccepts(q, filename, created, size) ==
    \/ Name(q) = filename
    \/ local[q].birth = created
    \/ local[q].size = size

----------------------------------------------------------------------------
(* Claims about the reconciler, checked under SpecReconcile *)

\* C2: for a path that exists locally and is absent from the remote listing,
\* sync_file returns Upload with overwrite = false for that path.
C2_LocalOnlyUploads ==
    (Called /\ result.path \in DOMAIN local /\ result.path \notin DOMAIN remote)
        => result.action = UploadFileAction(result.path, FALSE)

C2_Witness ==
    /\ Called
    /\ result.path \in DOMAIN local
    /\ result.path \notin DOMAIN remote
    /\ result.action.type = "UploadFileAction"

\* C3: for a path present on both sides, sync_file returns Download with
\* overwrite_ok = true exactly when the remote modified time is strictly later
\* than the local mtime, Upload with overwrite = true exactly when it is
\* strictly earlier, and DoNothing exactly when they are equal, whatever the
\* sizes are.
C3_NewerWins ==
    (Called /\ result.path \in DOMAIN local /\ result.path \in DOMAIN remote)
        => LET p == result.path IN
           /\ (result.action = DownloadFileAction(p, TRUE))
                  <=> (remote[p].modified > local[p].mtime)
           /\ (result.action = UploadFileAction(p, TRUE))
                  <=> (remote[p].modified < local[p].mtime)
           /\ (result.action = DoNothing)
                  <=> (remote[p].modified = local[p].mtime)
           /\ result.action \in
                  {DownloadFileAction(p, TRUE), UploadFileAction(p, TRUE), DoNothing}

C3_Witness ==
    /\ Called
    /\ result.path \in DOMAIN local
    /\ result.path \in DOMAIN remote
    /\ result.action = DoNothing
    /\ remote[result.path].size # local[result.path].size

\* C4: for a path present remotely and absent locally, when the File Matcher
\* called with the base name, the remote created time and the remote size
\* finds no candidate, sync_file returns Download with overwrite_ok = false.
C4_CloudOnlyDownloads ==
    (/\ Called
     /\ result.path \notin DOMAIN local
     /\ result.path \in DOMAIN remote
     /\ search_file(Name(result.path), remote[result.path].created,
                    remote[result.path].size) = NotFound)
        => result.action = DownloadFileAction(result.path, FALSE)

C4_Witness ==
    /\ Called
    /\ result.path \notin DOMAIN local
    /\ result.path \in DOMAIN remote
    /\ \E q \in DOMAIN local : ~InHiddenDirectory(q)
    /\ result.action.type = "DownloadFileAction"

\* C5: for a path present remotely and absent locally, if some local file
\* outside hidden directories has the remote record's created time as its
\* birth time (or the same base name, or the remote record's size), sync_file
\* returns MovedLocally(path, found_path) for such a file, not Download.
C5_MatchMeansMoved ==
    (/\ Called
     /\ result.path \notin DOMAIN local
     /\ result.path \in DOMAIN remote
     /\ \E q \in DOMAIN local :
            /\ ~InHiddenDirectory(q)
            /\ SpecAccepts(q, Name(result.path), remote[result.path].created,
                           remote[result.path].size))
        => /\ result.action.type = "FileMovedLocally"
           /\ result.action.path = result.path
           /\ result.action.new_path \in DOMAIN local
           /\ ~InHiddenDirectory(result.action.new_path)
           /\ SpecAccepts(result.action.new_path, Name(result.path),
                          remote[result.path].created, remote[result.path].size)

\* C6: for a path absent locally and remotely, sync_file fails with
\* FileNotFound unless the File Matcher, called with the base name only,
\* finds a same-named local file, and then it returns
\* MovedLocally(path, found_path).
C6_NeitherSide ==
    (Called /\ result.path \notin DOMAIN local /\ result.path \notin DOMAIN remote)
        => LET found == search_file(Name(result.path), None, None) IN
           /\ found = NotFound => result.action = FileNotFoundError
           /\ found # NotFound =>
                 /\ result.action = FileMovedLocally(result.path, found.path)
                 /\ found.path \in DOMAIN local
                 /\ Name(found.path) = Name(result.path)
           /\ result.action = FileNotFoundError =>
                 ~ \E q \in DOMAIN local :
                       ~InHiddenDirectory(q) /\ Name(q) = Name(result.path)

C6_Witness ==
    /\ Called
    /\ result.path \notin DOMAIN local
    /\ result.path \notin DOMAIN remote
    /\ result.action.type = "FileMovedLocally"
    /\ \E q \in DOMAIN local : Name(q) # Name(result.path)

\* C7: the path the File Matcher returns is never inside a hidden directory:
\* no directory between the root and the returned file, at any depth, has a
\* name starting with '.'.
C7_NeverInHiddenDirectory ==
    (Called /\ result.action.type = "FileMovedLocally")
        => ~InHiddenDirectory(result.action.new_path)

\* C8: sync_file is idempotent: a second call for the same path, with no
\* change to local or remote state in between, returns the same action.
C8_Idempotent ==
    result.prev # NoAction => result.action = result.prev

C8_Witness ==
    /\ result.prev # NoAction
    /\ result.action.type = "DownloadFileAction"

----------------------------------------------------------------------------
(* Claims about a sync pass *)

AllFinished == \A i \in DOMAIN status : Finished(status[i])

FailedFutures == { i \in DOMAIN status : Failed(status[i]) }

\* what assert_synced of the tests asserts
Synced ==
    /\ DOMAIN remote = DOMAIN local
    /\ \A p \in DOMAIN remote :
          /\ remote[p].modified = local[p].mtime
          /\ remote[p].size = local[p].size

\* C1: after a sync pass in which no action failed, the remote paths are the
\* local paths, and every remote file has the modification time and the size
\* of the local file.
C1_SyncedAfterPass == (pc = "Done" /\ exceptions = <<>>) => Synced

\* C9: when any subset of the dispatched actions fails, no exception leaves
\* sync, and once the pass is done the failure list holds exactly the failed
\* actions, each once, each with the future that holds its own error, and no
\* action that succeeded.
C9_ExactFailures ==
    /\ pc \in {"Executing", "Done"} => raised = NoAction
    /\ pc = "Done" =>
          /\ { e.future : e \in { exceptions[k] : k \in DOMAIN exceptions } }
                = FailedFutures
          /\ Len(exceptions) = Cardinality(FailedFutures)
          /\ \A k \in DOMAIN exceptions :
                exceptions[k].action = batch[exceptions[k].future]

\* a finished pass in which an action failed, another succeeded, and the
\* failed one is not the last of the batch
C9_Witness ==
    /\ pc = "Done"
    /\ \E i, j \in DOMAIN status :
          /\ Failed(status[i])
          /\ status[j] = "ok"
          /\ batch[i] # batch[Len(batch)]

\* C10: once the batch is dispatched every action of it eventually finishes,
\* whatever happens to the others, and nothing is reported before every
\* action has finished.
C10_AllFinishBeforeReport ==
    /\ (pc = "Executing") ~> AllFinished
    /\ [](pc = "Done" => AllFinished)

\* an action failed and was collected while a sibling has not started yet
C10_Witness ==
    /\ pc = "Executing"
    /\ \E i, j \in DOMAIN status :
          /\ i \in collected
          /\ Failed(status[i])
          /\ status[j] = "pending"

\* C11: when reconciling a path of the file set raises FileNotFoundError, the
\* pass is not aborted: the failure is kept as that file's failure and the
\* other paths are still reconciled and executed.
C11_ReconcileFailureRecoverable ==
    ~(pc = "Aborted" /\ all_files # {} /\ raised = FileNotFoundError)

\* a step of the work on the file set: enumeration, reconciliation,
\* submission, execution or collection
FileSetStep ==
    \/ all_files' # all_files
    \/ batch' # batch
    \/ status' # status
    \/ collected' # collected

\* the main document is where the rest of the pass expects it: present on
\* both sides with the remote modification time
MainInPlace ==
    /\ MainPath \in DOMAIN local
    /\ MainPath \in DOMAIN remote
    /\ local[MainPath].mtime = remote[MainPath].modified

\* C12: no path of the file set is enumerated or reconciled and no action of
\* the batch is executed before the main document's action has been
\* reconciled and has completed: the pass leaves the primary-document phase
\* only by a completed action, and every step of the file set finds the main
\* document in place.
C12_PrimaryBarrier ==
    [][ /\ FileSetStep =>
              /\ pc \notin {"Idle", "ValidatingProject", "SyncingPrimaryDocument"}
              /\ MainInPlace
        /\ (pc = "SyncingPrimaryDocument" /\ pc' = "EnumeratingFiles") =>
              /\ action.type \in {"DoNothing", "DownloadFileAction"}
              /\ MainInPlace'
      ]_vars

\* the batch is being executed after the main document was downloaded
C12_Witness ==
    /\ pc = "Executing"
    /\ \E i \in DOMAIN status : Finished(status[i])
    /\ \E r \in requests : r.url = "file" /\ r.path = MainPath

\* a step in which reconciling the main document raises FileNotFoundError or
\* the completion of its action raises
MainFails ==
    /\ pc = "SyncingPrimaryDocument"
    /\ \/ /\ action = NoAction
          /\ sync_file(MainPath, project_files) = FileNotFoundError
          /\ cache' = Get(cache, FilesKey, remote)
       \/ /\ action # NoAction
          /\ \E o \in Complete(action, local, cache) :
                /\ o.status # "ok"
                /\ local' = o.local
                /\ cache' = o.cache
                /\ requests' = requests \cup o.sent

\* C13: when reconciling the main document raises FileNotFoundError or the
\* execution of its action fails, the pass aborts: no other path has been
\* enumerated or reconciled, nothing has been submitted to the pool, and
\* after the abort nothing happens any more, no request included.
C13_PrimaryFailureAborts ==
    [][ /\ MainFails =>
              /\ pc' = "Aborted"
              /\ all_files' = {}
              /\ batch' = <<>>
              /\ status' = <<>>
        /\ pc = "Aborted" => UNCHANGED vars
      ]_vars

\* the pass was aborted by a failed download of the main document
C13_Witness ==
    /\ pc = "Aborted"
    /\ raised.type = "APIRequestError"
    /\ \E r \in requests : r.url = "file" /\ r.path = MainPath

\* C14: when the project id is missing or the server does not know the
\* project, the pass aborts before any action: no path is reconciled (the
\* listing is never asked for), nothing is enumerated or submitted, and no
\* request for a file is sent.
C14_InvalidProjectAborts ==
    (project_id = None \/ ~available) =>
        /\ pc \in {"Idle", "ValidatingProject", "Aborted"}
        /\ pc = "Aborted" => raised.type = "AssertionError"
        /\ action = NoAction
        /\ all_files = {}
        /\ batch = <<>>
        /\ local \in SyncLocalTrees
        /\ FilesKey \notin DOMAIN cache
        /\ \A r \in requests : r.url = "project"
        /\ project_id = None => requests = {}

\* the pass was aborted because the server does not know the project
C14_Witness ==
    /\ pc = "Aborted"
    /\ project_id # None
    /\ ~available
    /\ requests # {}

\* C15: at every moment of the concurrent phase at most 4 actions are being
\* executed, whatever the size of the batch.
C15_AtMostFourExecuting == Cardinality(Running) <= max_workers

\* four actions are at work and a fifth of the batch waits
C15_Witness ==
    /\ Cardinality(Running) = max_workers
    /\ \E i \in DOMAIN status : status[i] = "pending"

\* the phase of the pass: reconciling the file set and executing its batch
\* are one phase
Phase == IF pc = "Executing" THEN "SyncingFileSet" ELSE pc

PhaseOrder ==
    <<"Idle", "ValidatingProject", "SyncingPrimaryDocument", "EnumeratingFiles",
      "SyncingFileSet", "Done">>

\* C16: the phases follow each other in the order Idle, ValidatingProject,
\* SyncingPrimaryDocument, EnumeratingFiles, SyncingFileSet, Done, none
\* skipped or revisited; Aborted is entered only from ValidatingProject or
\* SyncingPrimaryDocument; Done and Aborted have no successor.
C16_PhaseOrder ==
    [][ \/ Phase' = Phase
        \/ \E k \in 1..(Len(PhaseOrder) - 1) :
              Phase = PhaseOrder[k] /\ Phase' = PhaseOrder[k + 1]
        \/ /\ Phase' = "Aborted"
           /\ Phase \in {"ValidatingProject", "SyncingPrimaryDocument"}
      ]_vars

\* C17: every path that is locally known or remotely listed is reconciled
\* exactly once: the batch holds one action for each path of the union, and a
\* path known on both sides does not yield two.
C17_OneActionPerPath ==
    pc \in {"Executing", "Done"} =>
        Len(batch) = Cardinality(known \cup DOMAIN remote)

C19_FileExistsLeavesFile ==
    [][ ( /\ action'.type = "DownloadFileAction"
          /\ ~action'.overwrite_ok
          /\ action'.path \in DOMAIN local ) =>
            /\ raised'.type = "FileExistsError"
            /\ local' = local
            /\ requests' = requests
            /\ cache' = cache
      ]_vars

\* a download was refused for a file that exists, after another download
\* had sent its request
C19_Witness ==
    /\ raised.type = "FileExistsError"
    /\ ~action.overwrite_ok
    /\ action.path \in DOMAIN local
    /\ requests # {}

\* C20: after a successful download of a path the local file has the remote
\* file's bytes and the remote record's modification time, and its access
\* time is the one it had after the write.
C20_DownloadedFile ==
    [][ ( /\ action'.type = "DownloadFileAction"
          /\ raised'.type = "ok" ) =>
            LET p == action'.path IN
            /\ local'[p].size = remote[p].size
            /\ local'[p].mtime = remote[p].modified
            /\ local'[p].atime = IF p \in DOMAIN local THEN local[p].atime ELSE clock
      ]_vars

\* the requests of a set that are operations on a file of the project
FileOperations(sent) == { r \in sent : r.url = "file" }

\* C21: an action run a second time right after it succeeded succeeds again
\* and leaves the local files and the remote files as the first run left
\* them.
C21_RetryIdempotent ==
    [][ ( /\ action' = action
          /\ raised.type = "ok" ) =>
            /\ raised'.type = "ok"
            /\ local' = local
            /\ remote' = remote
      ]_vars

\* C22: an action that completes sends exactly one file operation to the
\* server when it is an upload, a download or a move and none when it is
\* DoNothing; DoNothing changes no local and no remote file, and a move
\* changes no local file.
C22_OneRemoteOperation ==
    [][ \A o \in Complete(action', local, cache) :
          ( /\ o.status = "ok"
            /\ raised'.type = "ok"
            /\ local' = o.local
            /\ cache' = o.cache
            /\ requests' = requests \cup o.sent ) =>
              /\ Cardinality(FileOperations(o.sent)) =
                    IF action'.type = "DoNothing" THEN 0 ELSE 1
              /\ action'.type = "DoNothing" => local' = local /\ remote' = remote
              /\ action'.type = "FileMovedLocally" => local' = local
      ]_vars

\* C23: a request that is answered with 429 every time is sent at most four
\* times; the call then returns the last 429 response, raises nothing and
\* leaves the response out of the cache.
C23_BoundedRetries ==
    \A t \in Threads :
        /\ calls[t].sent <= max_counter + 2
        /\ ( /\ calls[t].pos \in {"returned", "raised"}
             /\ calls[t].op = "project_files"
             /\ ~calls[t].hit
             /\ calls[t].resp.status_code = too_many_requests ) =>
                /\ calls[t].sent = max_counter + 2
                /\ calls[t].pos = "returned"
        /\ \A k \in DOMAIN cache : cache[k].status_code # too_many_requests

\* C29: a project_files call that begins after a changing call has returned
\* is not answered from the cache with a listing the server gave before that
\* change.
C29_NoStaleListing ==
    \A t \in Threads :
        ( /\ calls[t].op = "project_files"
          /\ calls[t].pos = "returned"
          /\ calls[t].hit ) =>
            calls[t].resp.version >= calls[t].after

\* C24: a call of sync_file, whether it returns or raises, changes no local
\* and no remote file, and the action it yields for a path depends on the
\* path and the files only, not on the calls made before it.
C24_ReconcileReadOnly ==
    [][ /\ local' = local
        /\ remote' = remote
        /\ result'.action = sync_file(result'.path, remote)
      ]_vars

\* sync_file raised for a path after earlier calls had fetched the listing
C24_Witness ==
    /\ result.action.type = "FileNotFoundError"
    /\ FilesKey \in DOMAIN cache
    /\ requests # {}

AcceptedPlaces(filename, created, size) ==
    { i \in 1..Len(walk) :
        /\ walk[i] \in DOMAIN local
        /\ ~InHiddenDirectory(walk[i])
        /\ SpecAccepts(walk[i], filename, created, size) }

FirstPlace(I) == CHOOSE i \in I : \A j \in I : i <= j

\* C26: the File Matcher returns the first file of the walk, outside hidden
\* directories, whose name equals the filename, or whose birth time equals
\* created_at, or whose size equals size, and None exactly when there is no
\* such file; with no hint it returns None.  Seen through sync_file: a
\* remote-only path is moved to that first file and downloaded when there
\* is none.
C26_FirstAccepted ==
    /\ search_file(NoName, None, None) = NotFound
    /\ ( /\ Called
         /\ result.path \notin DOMAIN local
         /\ result.path \in DOMAIN remote ) =>
            LET I == AcceptedPlaces(Name(result.path), remote[result.path].created,
                                    remote[result.path].size)
            IN  result.action =
                    IF I = {}
                    THEN DownloadFileAction(result.path, FALSE)
                    ELSE FileMovedLocally(result.path, walk[FirstPlace(I)])

\* C27: in a pass made right after a pass in which no action failed, the
\* main document and every path of the file set reconcile to DoNothing, no
\* request for a file is sent, and nothing fails.
C27_SecondPassIdle ==
    pass = 2 =>
        /\ pc # "Aborted"
        /\ action \in {NoAction, DoNothing}
        /\ \A i \in DOMAIN batch : batch[i] = DoNothing
        /\ FileOperations(requests) = {}
        /\ exceptions = <<>>

\* the second pass is done, after a first pass that created a file by
\* downloading it
C27_Witness ==
    /\ pass = 2
    /\ pc = "Done"
    /\ Len(batch) >= 2
    /\ \E p \in DOMAIN local : local[p].birth = Now

\* the actions that write a file, and the path each of them writes: the
\* path of an upload or a download, the new_path of a move
Writes(a) == a.type \in {"UploadFileAction", "DownloadFileAction", "FileMovedLocally"}

Target(a) == IF a.type = "FileMovedLocally" THEN a.new_path ELSE a.path

\* C28: no two actions of a batch write the same path.
C28_DistinctTargets ==
    \A i \in DOMAIN batch, j \in DOMAIN batch :
        (i # j /\ Writes(batch[i]) /\ Writes(batch[j])) =>
            Target(batch[i]) # Target(batch[j])

\* C30: a FileMovedLocally that sync_file returns for a path has that path
\* as old path, absent locally and present in the remote listing, and a new
\* path that exists locally and differs from the old one.
C30_MoveWellFormed ==
    (Called /\ result.action.type = "FileMovedLocally") =>
        /\ result.action.path = result.path
        /\ result.action.path \notin DOMAIN local
        /\ result.action.new_path \in DOMAIN local
        /\ result.action.new_path # result.action.path
        /\ result.action.path \in DOMAIN remote

\* C31: the request method ends with APIRequestError whenever the response
\* it ends with has the key 'detail', also after retries, and no response
\* in the cache has that key.
C31_DetailRaises ==
    /\ \A t \in Threads :
          ( /\ calls[t].op = "project_files"
            /\ calls[t].pos \in {"returned", "raised"}
            /\ ~calls[t].hit
            /\ calls[t].resp.detail ) =>
                /\ calls[t].pos = "raised"
                /\ calls[t].error = "APIRequestError"
    /\ \A k \in DOMAIN cache : ~cache[k].detail

\* C32: when the token is rejected (the call of validate_token ends with a
\* response whose status is not 200 and whose body has a detail),
\* token_valid returns False and raises nothing, and the command stops: no
\* project validation, no sync and no render step follows.
C32_RejectedTokenStops ==
    ( /\ calls[1].op = "validate_token"
      /\ calls[1].pos \in {"returned", "raised"}
      /\ calls[1].resp.status_code # status_ok
      /\ calls[1].resp.detail ) =>
        /\ calls[1].pos = "returned"
        /\ token_valid(calls[1]) = "False"
        /\ pc \in {"ValidatingToken", "Stopped"}
        /\ raised = NoAction
        /\ requests = {}

\* C33: a request made after close() raises ClientClosed and returns no
\* response, whatever the method, url and parameters and whether or not the
\* same request was made before, and so does a second close().
C33_ClosedClientRaises ==
    \A t \in Threads :
        ( /\ calls[t].closed
          /\ calls[t].pos \in {"returned", "raised"} ) =>
            /\ calls[t].pos = "raised"
            /\ calls[t].error = "ClientClosed"

====
